---------------------------- MODULE Spec2Model ----------------------------
(***************************************************************************)
(* Image-to-PDF bot (src/bot.py): the per-user session table, the image    *)
(* and album handlers, the stop handler with its concurrent download       *)
(* tasks, the file-name handler that assembles and sends the document,     *)
(* and the cancel handler.                                                 *)
(*                                                                         *)
(* Every handler is a coroutine on one event loop: it runs without         *)
(* interruption from one await to the next, and other handlers run while   *)
(* it is suspended.  Each action below is one such uninterrupted stretch.  *)
(* Calls that only send a chat message and whose exception would leave     *)
(* the handler are taken to return; a chat call inside a try block whose   *)
(* except branch changes what the handler computes has both outcomes.      *)
(***************************************************************************)
EXTENDS Integers, Sequences, FiniteSets, TLC

(* ------------------------------ bounds --------------------------------- *)
\* messages the transport delivers to the image handler in one run
MaxMsgs == 2
\* the same, when the image handler runs one message at a time
MaxSeqMsgs == 5
\* distinct albums (media groups) the user sends
NumGroups == 2
\* messages in one album
GroupLen == 3
\* images of the longest list the document is built from, when the document
\* handler is taken alone
MaxLayoutImages == 7
\* images of the largest session whose /stop is followed under fair scheduling
MaxFairBatch == 3
\* image handlers suspended in get_media_group at one time
MaxGroupFlows == 2
\* stop handlers in flight at one time
MaxCloses == 1
\* file-name handlers in flight at one time
MaxTexts == 1
\* documents kept in the record of what was sent
MaxDocs == 1

(* -------------------------- program constants -------------------------- *)
IMAGES_PER_PAGE == 3
MAX_CONCURRENT_DOWNLOADS == 8
max_retries == 5
MIN_VALID_BYTES == 1024

\* largest session the download-only specification starts from: one more than
\* the configured number of concurrent downloads
MaxBatch == MAX_CONCURRENT_DOWNLOADS + 1

Users == {1}
Groups == 1..NumGroups

VARIABLES
    sessions,    \* the dict `sessions`: user_id -> session dict
    dirs,        \* users whose directory user_data/<user_id> exists
    sent,        \* messages delivered to handle_image so far (message ids)
    groups,      \* handle_image coroutines suspended in get_media_group
    closes,      \* stop_session coroutines in flight
    texts,       \* handle_text coroutines in flight
    documents,   \* documents sent with send_document
    ended,       \* per user: how the session begun last has ended, if it has
    files,       \* per user: the image files in user_data/<user_id>
    task         \* one robust_download call followed attempt by attempt

vars == <<sessions, dirs, sent, groups, closes, texts, documents, ended, files, task>>

(* ------------------------------ helpers -------------------------------- *)
\* dict with key k set to v
Put(d, k, v) == [x \in DOMAIN d \cup {k} |-> IF x = k THEN v ELSE d[x]]

\* dict with key k deleted
Del(d, k) == [x \in DOMAIN d \ {k} |-> d[x]]

\* sequence s without its i-th element
RemoveAt(s, i) == [j \in 1..(Len(s) - 1) |-> IF j < i THEN s[j] ELSE s[j + 1]]

(* --------------------------- messages ---------------------------------- *)
\* a single (non-album) message with id n
SingleMsg(n, kind) == [gid |-> 0, pos |-> n, kind |-> kind]

\* member i of album g; the second member of an album is a non-image document
AlbumMsg(g, i) ==
    [gid |-> g, pos |-> i, kind |-> IF i = 2 THEN "other_doc" ELSE "photo"]

\* what get_media_group returns for album g
get_media_group(g) == [i \in 1..GroupLen |-> AlbumMsg(g, i)]

is_image(message) == message.kind \in {"photo", "image_doc"}

(* ------------------------------ begin ---------------------------------- *)
NewSession(u) ==
    [ image_refs        |-> <<>>,
      active            |-> TRUE,
      dir               |-> u,
      media_groups      |-> {},
      sequence          |-> 0,
      \* keys the dict does not have yet: <<>> is "no such key"
      downloaded_images |-> <<>>,
      waiting_for_name  |-> FALSE ]

\* start_session without the rmtree of lines 261-262
start_session_keeps_directory(u) ==
    /\ dirs' = dirs \cup {u}
    /\ sessions' = Put(sessions, u, NewSession(u))
    /\ ended' = [ended EXCEPT ![u] = "no"]
    /\ UNCHANGED <<sent, groups, closes, texts, documents, files, task>>

start_session(u) ==
    /\ dirs' = dirs \cup {u}
    /\ sessions' = Put(sessions, u, NewSession(u))
    /\ ended' = [ended EXCEPT ![u] = "no"]
    \* lines 261-263: rmtree of the old directory, then mkdir
    /\ files' = [files EXCEPT ![u] = {}]
    /\ UNCHANGED <<sent, groups, closes, texts, documents, task>>

(* --------------------------- handle_image ------------------------------ *)
ItemRef(message, seq) == [message |-> message, sequence |-> seq]

\* a message that does not belong to an album
handle_image_single(u, kind) ==
    /\ sent' = sent + 1
    /\ IF u \notin DOMAIN sessions \/ ~sessions[u].active
       THEN /\ UNCHANGED ended
            /\ UNCHANGED sessions
       ELSE LET seq == sessions[u].sequence + 1
                msg == SingleMsg(sent + 1, kind)
                s1  == [sessions[u] EXCEPT !.sequence = seq]
            IN  IF ~is_image(msg)
                THEN /\ sessions' = Put(sessions, u, s1)
                     /\ UNCHANGED ended
                ELSE /\ sessions' = Put(sessions, u,
                            [s1 EXCEPT !.image_refs = Append(@, ItemRef(msg, seq))])
                     /\ UNCHANGED ended
    /\ UNCHANGED <<dirs, groups, closes, texts, documents, files, task>>

\* StoreGroup without the `seq += 1` of line 481
RECURSIVE StoreGroupNoIncrement(_, _, _, _)
StoreGroupNoIncrement(refs, media_group, i, seq) ==
    IF i > Len(media_group) THEN [refs |-> refs, seq |-> seq]
    ELSE IF is_image(media_group[i])
         THEN StoreGroupNoIncrement(Append(refs, ItemRef(media_group[i], seq)),
                                    media_group, i + 1, seq)
         ELSE StoreGroupNoIncrement(refs, media_group, i + 1, seq)

\* lines 474-481: append one ItemRef per image of the album, numbering from seq;
\* gives the new list and the value of seq after the loop
RECURSIVE StoreGroup(_, _, _, _)
StoreGroup(refs, media_group, i, seq) ==
    IF i > Len(media_group) THEN [refs |-> refs, seq |-> seq]
    ELSE IF is_image(media_group[i])
         THEN StoreGroup(Append(refs, ItemRef(media_group[i], seq)),
                         media_group, i + 1, seq + 1)
         ELSE StoreGroup(refs, media_group, i + 1, seq)

\* a message of album g, up to the await of get_media_group (lines 448-471)
handle_image_group(u, g) ==
    /\ sent' = sent + 1
    /\ IF u \notin DOMAIN sessions \/ ~sessions[u].active
       THEN /\ UNCHANGED ended
            /\ UNCHANGED <<sessions, groups>>
       ELSE LET seq == sessions[u].sequence + 1
                s1  == [sessions[u] EXCEPT !.sequence = seq]
            IN  IF g \in s1.media_groups
                THEN /\ sessions' = Put(sessions, u, s1)
                     /\ UNCHANGED ended
                     /\ UNCHANGED groups
                ELSE /\ Len(groups) < MaxGroupFlows
                     /\ sessions' = Put(sessions, u,
                            [s1 EXCEPT !.media_groups = @ \cup {g}])
                     /\ groups' = Append(groups, [user |-> u, gid |-> g, seq |-> seq])
                     /\ UNCHANGED ended
    /\ UNCHANGED <<dirs, closes, texts, documents, files, task>>

\* get_media_group returned: lines 473-484, then the finally of line 490
handle_image_group_stored(k) ==
    /\ k \in 1..Len(groups)
    /\ LET f == groups[k]
           u == f.user
       IN  /\ u \in DOMAIN sessions
           /\ LET r  == StoreGroup(sessions[u].image_refs, get_media_group(f.gid), 1, f.seq)
              IN  sessions' = Put(sessions, u,
                      [sessions[u] EXCEPT !.image_refs = r.refs,
                                          !.sequence = r.seq,
                                          !.media_groups = @ \ {f.gid}])
           /\ UNCHANGED ended
    /\ groups' = RemoveAt(groups, k)
    /\ UNCHANGED <<dirs, sent, closes, texts, documents, files, task>>

\* get_media_group raised: the except of lines 485-487, then the finally
handle_image_group_failed(k) ==
    /\ k \in 1..Len(groups)
    /\ LET f == groups[k]
           u == f.user
       IN  /\ u \in DOMAIN sessions
           /\ sessions' = Put(sessions, u,
                  [sessions[u] EXCEPT !.media_groups = @ \ {f.gid}])
           /\ UNCHANGED ended
    /\ groups' = RemoveAt(groups, k)
    /\ UNCHANGED <<dirs, sent, closes, texts, documents, files, task>>

(* --------------------------- clean_session ----------------------------- *)
\* the body of the coroutine function clean_session
clean_session(u) ==
    IF u \in DOMAIN sessions
    THEN /\ dirs' = dirs \ {sessions[u].dir}
         /\ files' = [files EXCEPT ![sessions[u].dir] = {}]
         /\ sessions' = Del(sessions, u)
    ELSE UNCHANGED <<sessions, dirs, files>>

\* `clean_session(user_id)` written without await (lines 294, 373, 438, 443):
\* the call builds a coroutine object that is dropped; its body never runs
Unawaited(body) == TRUE

(* --------------------------- robust_download --------------------------- *)
\* one attempt: download_media returns and leaves a file of `size` bytes
\* (0: no file), or wait_for times out, or the call raises
Transfer(size) == [raised |-> "none", size |-> size]
FailedAttempts ==
    <<Transfer(MIN_VALID_BYTES), [raised |-> "timeout", size |-> 0],
      [raised |-> "error", size |-> 0], Transfer(0)>>

\* lines 113-116: the attempt returns the path
AttemptValid(outcome) == outcome.raised = "none" /\ outcome.size > MIN_VALID_BYTES

\* the runs of attempts a task is given: f failed attempts (an undersized
\* file, a timeout, an error, no file, in turn), then good transfers
AttemptRuns ==
    { [a \in 1..max_retries |->
          IF a <= f THEN FailedAttempts[((a - 1) % Len(FailedAttempts)) + 1]
          ELSE Transfer(MIN_VALID_BYTES + 1)] :
        f \in 0..max_retries }

\* the for loop of lines 104-132: the attempt that returns the path, or 0 when
\* all max_retries attempts failed and line 132 raises
RECURSIVE robust_download(_, _)
robust_download(run, attempt) ==
    IF attempt > max_retries THEN 0
    ELSE IF AttemptValid(run[attempt]) THEN attempt
         ELSE robust_download(run, attempt + 1)

\* the directory after a robust_download call for `message`: the file is there
\* when an attempt was valid (line 116 returns it); when none was, a transfer
\* that left an undersized file wrote file_path and line 122 removed it
FilesAfter(present, message, run) ==
    IF robust_download(run, 1) # 0 THEN present \cup {message}
    ELSE IF \E a \in 1..max_retries :
                /\ run[a].raised = "none"
                /\ run[a].size > 0
                /\ run[a].size <= MIN_VALID_BYTES
         THEN present \ {message}
         ELSE present

\* process_image for the task with 0-based index idx of total: what the task
\* returns, "path" or the exception it caught
process_image(run, idx, total, edit_ok) ==
    IF robust_download(run, 1) = 0 THEN "FetchExhausted"
    ELSE IF ((idx + 1) % 5 = 0 \/ (idx + 1) = total) /\ ~edit_ok
         THEN "EditFailed"
         ELSE "path"

(* ----- robust_download and process_image, one attempt at a time ----- *)
\* `task` follows one process_image call for a session of one image:
\*   run      what each download_media call will do
\*   attempt  attempts started so far
\*   file     size of the file at file_path (0: no file)
\*   pc       "attempt": before download_media (line 107); "check": it returned
\*            (line 112); "returned": line 116; "raised": line 132; "done":
\*            process_image has returned `result`

\* what a download_media call can do
AttemptOutcomes ==
    { Transfer(MIN_VALID_BYTES + 1), Transfer(MIN_VALID_BYTES), Transfer(0),
      [raised |-> "timeout", size |-> 0], [raised |-> "error", size |-> 0] }

\* lines 129-132: sleep, then the next pass of the loop or the raise after it
AfterFailedAttempt(attempt) ==
    IF attempt >= max_retries THEN "raised" ELSE "attempt"

\* lines 105-110 and 124-127: download_media under wait_for
robust_download_transfer ==
    /\ task.pc = "attempt"
    /\ LET attempt == task.attempt + 1
           outcome == task.run[attempt]
       IN  IF outcome.raised # "none"
           THEN task' = [task EXCEPT !.attempt = attempt,
                                     !.pc = AfterFailedAttempt(attempt)]
           ELSE task' = [task EXCEPT !.attempt = attempt,
                                     !.pc = "check",
                                     !.file = IF outcome.size > 0 THEN outcome.size
                                              ELSE @]
    /\ UNCHANGED <<sessions, dirs, sent, groups, closes, texts, documents, ended, files>>

\* robust_download_check without the remove of lines 121-122
robust_download_check_keeps_file ==
    /\ task.pc = "check"
    /\ IF task.file > 0 /\ task.file > MIN_VALID_BYTES
       THEN task' = [task EXCEPT !.pc = "returned"]
       ELSE task' = [task EXCEPT !.pc = AfterFailedAttempt(task.attempt)]
    /\ UNCHANGED <<sessions, dirs, sent, groups, closes, texts, documents, ended, files>>

\* lines 112-122: the file is returned when it exists and is larger than
\* MIN_VALID_BYTES; otherwise it is removed if it exists
robust_download_check ==
    /\ task.pc = "check"
    /\ IF task.file > 0 /\ task.file > MIN_VALID_BYTES
       THEN task' = [task EXCEPT !.pc = "returned"]
       ELSE task' = [task EXCEPT !.pc = AfterFailedAttempt(task.attempt),
                                 !.file = 0]
    /\ UNCHANGED <<sessions, dirs, sent, groups, closes, texts, documents, ended, files>>

\* lines 353-366: robust_download returned or raised; the last (and only)
\* image edits the progress message; the exception caught is the return value
process_image_return(edit_ok) ==
    /\ task.pc \in {"returned", "raised"}
    /\ task' = [task EXCEPT
                   !.pc = "done",
                   !.edit_ok = edit_ok,
                   !.result = IF task.pc = "raised" THEN "FetchExhausted"
                              ELSE IF ~edit_ok THEN "EditFailed"
                              ELSE "path"]
    /\ UNCHANGED <<sessions, dirs, sent, groups, closes, texts, documents, ended, files>>

(* ---------------------------- stop_session ----------------------------- *)
\* sorted(..., key=sequence): a stable sort
RECURSIVE InsertBySequence(_, _)
InsertBySequence(s, x) ==
    IF s = <<>> THEN <<x>>
    ELSE IF s[Len(s)].sequence <= x.sequence THEN Append(s, x)
         ELSE Append(InsertBySequence(SubSeq(s, 1, Len(s) - 1), x), s[Len(s)])

RECURSIVE sorted(_)
sorted(refs) ==
    IF refs = <<>> THEN <<>>
    ELSE InsertBySequence(sorted(SubSeq(refs, 1, Len(refs) - 1)), refs[Len(refs)])

\* lines 284-298: up to the await of the "Downloading 0/count" reply
stop_session(u) ==
    /\ IF u \notin DOMAIN sessions \/ ~sessions[u].active
       THEN /\ UNCHANGED ended
            /\ UNCHANGED <<sessions, closes>>
       ELSE LET s1 == [sessions[u] EXCEPT !.active = FALSE]
                count == Len(s1.image_refs)
            IN  IF count = 0
                THEN /\ sessions' = Put(sessions, u, s1)
                     /\ Unawaited(clean_session(u))
                     /\ ended' = [ended EXCEPT ![u] = "EmptySession"]
                     /\ UNCHANGED closes
                ELSE /\ Len(closes) < MaxCloses
                     /\ sessions' = Put(sessions, u, s1)
                     /\ closes' = Append(closes,
                            [user |-> u, pc |-> "announce", count |-> count,
                             sorted_refs |-> <<>>, results |-> <<>>,
                             downloaded_images |-> <<>>, failed |-> 0])
                     /\ UNCHANGED ended
    /\ UNCHANGED <<dirs, sent, groups, texts, documents, files, task>>

\* lines 299-321: the reply returned; sort, create one task per ref, gather
stop_session_tasks(k) ==
    /\ k \in 1..Len(closes)
    /\ closes[k].pc = "announce"
    /\ LET f == closes[k]
           u == f.user
       IN  /\ u \in DOMAIN sessions
           /\ LET refs == sorted(sessions[u].image_refs)
              IN  closes' = [closes EXCEPT ![k] =
                      [f EXCEPT !.pc = "gather",
                                !.sorted_refs = refs,
                                !.results = [i \in 1..Len(refs) |-> "running"]]]
           /\ sessions' = Put(sessions, u,
                  [sessions[u] EXCEPT !.downloaded_images = << <<>> >>])
    /\ UNCHANGED <<dirs, sent, groups, texts, documents, ended, files, task>>

\* one download task runs to its return
download_task(k, i, run, edit_ok) ==
    /\ k \in 1..Len(closes)
    /\ closes[k].pc = "gather"
    /\ i \in 1..Len(closes[k].results)
    /\ closes[k].results[i] = "running"
    /\ closes' = [closes EXCEPT ![k].results[i] =
            process_image(run, i - 1, closes[k].count, edit_ok)]
    /\ files' = [files EXCEPT ![closes[k].user] =
            FilesAfter(@, closes[k].sorted_refs[i].message, run)]
    /\ UNCHANGED <<sessions, dirs, sent, groups, texts, documents, ended, task>>

\* lines 324-327: the (idx, result) pairs of the results that are paths
RECURSIVE CollectDownloaded(_, _, _)
CollectDownloaded(results, refs, i) ==
    IF i > Len(results) THEN <<>>
    ELSE IF results[i] = "path"
         THEN <<[idx |-> i - 1, path |-> refs[i].message]>>
              \o CollectDownloaded(results, refs, i + 1)
         ELSE CollectDownloaded(results, refs, i + 1)

\* line 333: downloaded_images.sort(key=idx), a stable sort
RECURSIVE InsertByIdx(_, _)
InsertByIdx(s, x) ==
    IF s = <<>> THEN <<x>>
    ELSE IF s[Len(s)].idx <= x.idx THEN Append(s, x)
         ELSE Append(InsertByIdx(SubSeq(s, 1, Len(s) - 1), x), s[Len(s)])

\* SortByIdx with the order reversed (sort(..., reverse=True))
RECURSIVE SortByIdxDescending(_)
SortByIdxDescending(pairs) ==
    IF pairs = <<>> THEN <<>>
    ELSE LET rest == SortByIdxDescending(SubSeq(pairs, 1, Len(pairs) - 1))
             x == pairs[Len(pairs)]
             before == SelectSeq(rest, LAMBDA y : y.idx > x.idx)
             after == SelectSeq(rest, LAMBDA y : y.idx <= x.idx)
         IN  before \o <<x>> \o after

RECURSIVE SortByIdx(_)
SortByIdx(pairs) ==
    IF pairs = <<>> THEN <<>>
    ELSE InsertByIdx(SortByIdx(SubSeq(pairs, 1, Len(pairs) - 1)), pairs[Len(pairs)])

\* line 334: [img[1] for img in downloaded_images]
Paths(pairs) == [j \in 1..Len(pairs) |-> pairs[j].path]

\* lines 329-330: one "Failed to download" reply per result that is no path
CountFailed(results) == Cardinality({i \in 1..Len(results) : results[i] # "path"})

\* stop_session_results when a task's exception leaves the gather of line 321
\* and with it the handler
stop_session_results_raising(k) ==
    /\ k \in 1..Len(closes)
    /\ closes[k].pc = "gather"
    /\ \A i \in 1..Len(closes[k].results) : closes[k].results[i] # "running"
    /\ LET f == closes[k]
           u == f.user
           pairs == SortByIdx(CollectDownloaded(f.results, f.sorted_refs, 1))
       IN  /\ u \in DOMAIN sessions
           /\ IF CountFailed(f.results) > 0
              THEN /\ closes' = RemoveAt(closes, k)
                   /\ UNCHANGED sessions
              ELSE /\ closes' = [closes EXCEPT ![k] =
                          [f EXCEPT !.pc = "final",
                                    !.downloaded_images = pairs,
                                    !.failed = CountFailed(f.results)]]
                   /\ sessions' = Put(sessions, u,
                          [sessions[u] EXCEPT !.downloaded_images = <<Paths(pairs)>>])
    /\ UNCHANGED <<dirs, sent, groups, texts, documents, ended, files, task>>

\* lines 321-338: gather returned; up to the await of the final edit_text
stop_session_results(k) ==
    /\ k \in 1..Len(closes)
    /\ closes[k].pc = "gather"
    /\ \A i \in 1..Len(closes[k].results) : closes[k].results[i] # "running"
    /\ LET f == closes[k]
           u == f.user
           pairs == SortByIdx(CollectDownloaded(f.results, f.sorted_refs, 1))
       IN  /\ u \in DOMAIN sessions
           /\ closes' = [closes EXCEPT ![k] =
                  [f EXCEPT !.pc = "final",
                            !.downloaded_images = pairs,
                            !.failed = CountFailed(f.results)]]
           /\ sessions' = Put(sessions, u,
                  [sessions[u] EXCEPT !.downloaded_images = <<Paths(pairs)>>])
    /\ UNCHANGED <<dirs, sent, groups, texts, documents, ended, files, task>>

\* line 344: the edit returned; the session waits for the file name
stop_session_finish(k) ==
    /\ k \in 1..Len(closes)
    /\ closes[k].pc = "final"
    /\ LET f == closes[k]
           u == f.user
       IN  /\ u \in DOMAIN sessions
           /\ sessions' = Put(sessions, u,
                  [sessions[u] EXCEPT !.waiting_for_name = TRUE])
           /\ ended' = [ended EXCEPT ![u] =
                  IF f.downloaded_images = <<>> THEN "AllRetrievalsFailed" ELSE @]
    /\ closes' = RemoveAt(closes, k)
    /\ UNCHANGED <<dirs, sent, groups, texts, documents, files, task>>

(* --------------------------- cancel_session ---------------------------- *)
cancel_session(u) ==
    /\ IF u \in DOMAIN sessions THEN Unawaited(clean_session(u)) ELSE TRUE
    /\ ended' = [ended EXCEPT ![u] = IF u \in DOMAIN sessions THEN "Cancelled" ELSE @]
    /\ UNCHANGED <<sessions, dirs, sent, groups, closes, texts, documents, files, task>>

(* ------------------------------ the PDF -------------------------------- *)
\* generate_hq_pdf counting full batches only
generate_hq_pdf_full_batches(total_images, i, page_count) ==
    total_images \div IMAGES_PER_PAGE

\* the for loop of line 163: one page per batch of IMAGES_PER_PAGE images
RECURSIVE generate_hq_pdf(_, _, _)
generate_hq_pdf(total_images, i, page_count) ==
    IF i >= total_images THEN page_count
    ELSE generate_hq_pdf(total_images, i + IMAGES_PER_PAGE, page_count + 1)

(* ---- exact fractions: the lengths the layout computes ---- *)
RECURSIVE gcd(_, _)
gcd(a, b) == IF b = 0 THEN a ELSE gcd(b, a % b)

\* the fraction n/d (d > 0) in lowest terms
Q(n, d) ==
    LET g == gcd(IF n < 0 THEN -n ELSE n, d)
    IN  [n |-> n \div g, d |-> d \div g]

QAdd(a, b) == Q(a.n * b.d + b.n * a.d, a.d * b.d)
QSub(a, b) == Q(a.n * b.d - b.n * a.d, a.d * b.d)
QMul(a, b) == Q(a.n * b.n, a.d * b.d)
\* a / b for b > 0
QDiv(a, b) == Q(a.n * b.d, a.d * b.n)
QLe(a, b) == a.n * b.d <= b.n * a.d
QLt(a, b) == a.n * b.d < b.n * a.d

\* Lengths are counted in units of 20/127 pt (1/18 mm), in which the page of
\* line 43 (A4: 210 mm x 297 mm) and the spacing of line 49 (20 pt) are whole
\* numbers: 210 * 18, 297 * 18 and 20 * (25.4 / 72) * 18.
PAGE_WIDTH == 3780
PAGE_HEIGHT == 5346
VERTICAL_SPACING == 127

\* what Image.open finds in a downloaded file: pixel width and height, or a
\* file that is no image
Shapes ==
    << [readable |-> TRUE, width |-> 4, height |-> 1],
       [readable |-> TRUE, width |-> 1, height |-> 1],
       [readable |-> TRUE, width |-> 1, height |-> 3],
       [readable |-> FALSE, width |-> 0, height |-> 0] >>

\* the content of the file downloaded for message img_path
Image(img_path) == Shapes[((img_path.pos - 1) % Len(Shapes)) + 1]

\* lines 176-182: the list aspect_ratios of a batch; a file that does not
\* exist appends nothing, a file Image.open rejects appends 1.0
RECURSIVE AspectRatios(_, _, _)
AspectRatios(batch, present, j) ==
    IF j > Len(batch) THEN <<>>
    ELSE LET rest == AspectRatios(batch, present, j + 1)
             img == Image(batch[j])
         IN  IF batch[j] \notin present THEN rest
             ELSE IF ~img.readable THEN <<Q(1, 1)>> \o rest
                  ELSE <<Q(img.height, img.width)>> \o rest

\* lines 185-186
height_per_image(batch_len) ==
    Q(PAGE_HEIGHT - VERTICAL_SPACING * (batch_len - 1), batch_len)

\* lines 197-207 with every image at the full page width, whatever its height
ScaleFullWidth(aspect, batch_len) ==
    [width |-> Q(PAGE_WIDTH, 1), height |-> QMul(Q(PAGE_WIDTH, 1), aspect)]

\* lines 197-207: scaled_width and scaled_height of an image of ratio aspect
Scale(aspect, batch_len) ==
    LET scaled_height == QMul(Q(PAGE_WIDTH, 1), aspect)
    IN  IF QLt(height_per_image(batch_len), scaled_height)
        THEN [width |-> QDiv(height_per_image(batch_len), aspect),
              height |-> height_per_image(batch_len)]
        ELSE [width |-> Q(PAGE_WIDTH, 1), height |-> scaled_height]

\* lines 189-227: the drawImage calls of one page, from entry idx (1-based) of
\* the batch on, with the cursor at current_y.  An entry is skipped when its
\* file does not exist (line 192), when Image.open raises (line 196) and when
\* aspect_ratios has no entry at its index (line 198, IndexError).
RECURSIVE DrawBatch(_, _, _, _, _)
DrawBatch(batch, present, aspect_ratios, idx, current_y) ==
    IF idx > Len(batch) THEN <<>>
    ELSE IF \/ batch[idx] \notin present
            \/ ~Image(batch[idx]).readable
            \/ idx > Len(aspect_ratios)
         THEN DrawBatch(batch, present, aspect_ratios, idx + 1, current_y)
         ELSE LET aspect == aspect_ratios[idx]
                  scaled == Scale(aspect, Len(batch))
                  x_offset == QDiv(QSub(Q(PAGE_WIDTH, 1), scaled.width), Q(2, 1))
                  y == QSub(current_y, scaled.height)
              IN  <<[image |-> batch[idx], idx |-> idx, aspect |-> aspect,
                     x |-> x_offset, y |-> y,
                     width |-> scaled.width, height |-> scaled.height]>>
                  \o DrawBatch(batch, present, aspect_ratios, idx + 1,
                               QSub(y, Q(VERTICAL_SPACING, 1)))

Min(a, b) == IF a <= b THEN a ELSE b

\* images[i:i+IMAGES_PER_PAGE] (i counts from 0)
Batch(images, i) == SubSeq(images, i + 1, Min(i + IMAGES_PER_PAGE, Len(images)))

\* lines 163-232: the pages of the document, one per pass of the loop: whether
\* showPage was called before it, its batch, the entries of the batch whose
\* file exists, its drawImage calls and the progress_callback call that ends it
RECURSIVE Pages(_, _, _, _)
Pages(images, present, i, page_count) ==
    IF i >= Len(images) THEN <<>>
    ELSE LET batch == Batch(images, i)
         IN  <<[showPage |-> page_count > 0,
                batch |-> batch,
                found |-> {j \in 1..Len(batch) : batch[j] \in present},
                drawn |-> DrawBatch(batch, present, AspectRatios(batch, present, 1),
                                    1, Q(PAGE_HEIGHT, 1)),
                progress |-> <<Min(i + IMAGES_PER_PAGE, Len(images)), Len(images)>>]>>
             \o Pages(images, present, i + IMAGES_PER_PAGE, page_count + 1)

\* progress_callback called once for every image drawn, with the number of
\* images drawn so far
RECURSIVE progress_calls_per_image(_, _, _)
progress_calls_per_image(images, present, i) ==
    IF i >= Len(images) THEN <<>>
    ELSE LET batch == Batch(images, i)
             drawn == DrawBatch(batch, present, AspectRatios(batch, present, 1),
                                1, Q(PAGE_HEIGHT, 1))
         IN  [k \in 1..Len(drawn) |->
                 [processed |-> i + drawn[k].idx, total |-> Len(images)]]
             \o progress_calls_per_image(images, present, i + IMAGES_PER_PAGE)

\* lines 229-232: the calls of progress_callback that generate_hq_pdf makes,
\* in order: one at the end of every pass of the page loop, after the draw
\* loop, whatever was drawn
RECURSIVE progress_calls(_, _, _)
progress_calls(images, present, i) ==
    IF i >= Len(images) THEN <<>>
    ELSE <<[processed |-> Min(i + IMAGES_PER_PAGE, Len(images)),
            total |-> Len(images)]>>
         \o progress_calls(images, present, i + IMAGES_PER_PAGE)

(* ----------------------------- handle_text ----------------------------- *)
\* lines 379-396: up to the await of the "Creating your PDF" reply
handle_text(u, filename_empty) ==
    /\ IF u \notin DOMAIN sessions
       THEN /\ UNCHANGED ended
            /\ UNCHANGED texts
       ELSE IF ~sessions[u].waiting_for_name
            THEN /\ UNCHANGED ended
                 /\ UNCHANGED texts
            ELSE IF filename_empty
                 THEN /\ UNCHANGED ended
                      /\ UNCHANGED texts
                 ELSE /\ Len(texts) < MaxTexts
                      /\ texts' = Append(texts, [user |-> u])
                      /\ UNCHANGED ended
    /\ UNCHANGED <<sessions, dirs, sent, groups, closes, documents, files, task>>

\* lines 410-443: build the PDF, send it, clean up
handle_text_send(k, send_ok) ==
    /\ k \in 1..Len(texts)
    /\ LET u == texts[k].user
       IN  IF u \notin DOMAIN sessions \/ sessions[u].downloaded_images = <<>>
              \/ ~send_ok
           THEN \* KeyError at line 410, or send_document raised: lines 440-443
                /\ Unawaited(clean_session(u))
                /\ ended' = [ended EXCEPT ![u] = "Failed"]
                /\ UNCHANGED documents
           ELSE LET images == sessions[u].downloaded_images[1]
                IN  /\ Len(documents) < MaxDocs
                    /\ documents' = Append(documents,
                           [user |-> u, images |-> images,
                            page_count |-> generate_hq_pdf(Len(images), 0, 0),
                            pages |-> Pages(images, files[u], 0, 0),
                            progress |-> progress_calls(images, files[u], 0)])
                    /\ Unawaited(clean_session(u))
                    /\ ended' = [ended EXCEPT ![u] = "Done"]
    /\ texts' = RemoveAt(texts, k)
    /\ UNCHANGED <<sessions, dirs, sent, groups, closes, files, task>>

(* --------------------------- specifications ---------------------------- *)
\* no robust_download call is being followed
NoTask == [pc |-> "idle"]

Begin == \E u \in Users : start_session(u)
ImageSingle == \E u \in Users, kind \in {"photo", "other_doc"} : handle_image_single(u, kind)
ImageGroup == \E u \in Users, g \in Groups : handle_image_group(u, g)
ImageGroupStored == \E k \in 1..Len(groups) : handle_image_group_stored(k)
ImageGroupFailed == \E k \in 1..Len(groups) : handle_image_group_failed(k)
Stop == \E u \in Users : stop_session(u)
StopTasks == \E k \in 1..Len(closes) : stop_session_tasks(k)
DownloadTask ==
    \E k \in 1..Len(closes) : \E i \in 1..Len(closes[k].results) :
        \E run \in AttemptRuns, edit_ok \in BOOLEAN : download_task(k, i, run, edit_ok)
StopResults == \E k \in 1..Len(closes) : stop_session_results(k)
StopFinish == \E k \in 1..Len(closes) : stop_session_finish(k)
Cancel == \E u \in Users : cancel_session(u)
Text == \E u \in Users, filename_empty \in BOOLEAN : handle_text(u, filename_empty)
TextSend == \E k \in 1..Len(texts), send_ok \in BOOLEAN : handle_text_send(k, send_ok)

\* the bot after start-up: no session, no directory
Init ==
    /\ sessions = <<>>
    /\ dirs = {}
    /\ sent = 0
    /\ groups = <<>>
    /\ closes = <<>>
    /\ texts = <<>>
    /\ documents = <<>>
    /\ ended = [u \in Users |-> "no"]
    /\ files = [u \in Users |-> {}]
    /\ task = NoTask

\* all handlers, interleaved at their awaits
Next ==
    \/ Begin
    \/ sent < MaxMsgs /\ ImageSingle
    \/ sent < MaxMsgs /\ ImageGroup
    \/ ImageGroupStored
    \/ ImageGroupFailed
    \/ Stop
    \/ StopTasks
    \/ DownloadTask
    \/ StopResults
    \/ StopFinish
    \/ Cancel
    \/ Text
    \/ TextSend

Spec == Init /\ [][Next]_vars

\* the image handler alone, one message after another: a handler starts only
\* when no other is suspended
NextSeq ==
    \/ groups = <<>> /\ Begin
    \/ groups = <<>> /\ sent < MaxSeqMsgs /\ ImageSingle
    \/ groups = <<>> /\ sent < MaxSeqMsgs /\ ImageGroup
    \/ ImageGroupStored
    \/ ImageGroupFailed

SpecSeq == Init /\ [][NextSeq]_vars

\* a session that collected n photos sent one by one, before /stop
InitPipeline ==
    /\ \E n \in 1..MaxBatch :
         /\ sessions = [u \in Users |->
                [NewSession(u) EXCEPT
                    !.image_refs = [i \in 1..n |-> ItemRef(SingleMsg(i, "photo"), i)],
                    !.sequence = n]]
         /\ sent = n
    /\ dirs = Users
    /\ groups = <<>>
    /\ closes = <<>>
    /\ texts = <<>>
    /\ documents = <<>>
    /\ ended = [u \in Users |-> "no"]
    /\ files = [u \in Users |-> {}]
    /\ task = NoTask

\* /stop, the downloads and the file name
NextPipeline ==
    \/ Stop
    \/ StopTasks
    \/ DownloadTask
    \/ StopResults
    \/ StopFinish
    \/ Text
    \/ TextSend

SpecPipeline == InitPipeline /\ [][NextPipeline]_vars

\* a session that collected up to MaxFairBatch photos, before /stop
InitFair ==
    /\ \E n \in 1..MaxFairBatch :
         /\ sessions = [u \in Users |->
                [NewSession(u) EXCEPT
                    !.image_refs = [i \in 1..n |-> ItemRef(SingleMsg(i, "photo"), i)],
                    !.sequence = n]]
         /\ sent = n
    /\ dirs = Users
    /\ groups = <<>>
    /\ closes = <<>>
    /\ texts = <<>>
    /\ documents = <<>>
    /\ ended = [u \in Users |-> "no"]
    /\ files = [u \in Users |-> {}]
    /\ task = NoTask

\* /stop, the downloads and the file name, with /begin and /cancel arriving
\* at any moment
NextFair ==
    \/ Begin
    \/ Cancel
    \/ Stop
    \/ StopTasks
    \/ DownloadTask
    \/ StopResults
    \/ StopFinish
    \/ Text
    \/ TextSend

\* the event loop runs every coroutine and task that is ready: a stop handler
\* whose await has returned goes on, a download task runs to its end
SpecFair ==
    /\ InitFair
    /\ [][NextFair]_vars
    /\ WF_vars(StopTasks)
    /\ WF_vars(DownloadTask)
    /\ WF_vars(StopResults)
    /\ WF_vars(StopFinish)

\* one process_image call for the only image of a session, with every run of
\* max_retries download_media outcomes
InitDownload ==
    /\ sessions = <<>>
    /\ dirs = {}
    /\ sent = 0
    /\ groups = <<>>
    /\ closes = <<>>
    /\ texts = <<>>
    /\ documents = <<>>
    /\ ended = [u \in Users |-> "no"]
    /\ files = [u \in Users |-> {}]
    /\ \E run \in [1..max_retries -> AttemptOutcomes] :
         task = [pc |-> "attempt", run |-> run, attempt |-> 0, file |-> 0,
                 edit_ok |-> TRUE, result |-> "running"]

DownloadTransfer == robust_download_transfer
DownloadCheck == robust_download_check
ProcessImageReturn == \E edit_ok \in BOOLEAN : process_image_return(edit_ok)

NextDownload ==
    \/ DownloadTransfer
    \/ DownloadCheck
    \/ ProcessImageReturn

SpecDownload == InitDownload /\ [][NextDownload]_vars

\* a closed session that waits for the file name: its list of downloaded
\* images has n entries, of contents that start anywhere in Shapes, and any
\* of the files may be gone from the directory
InitLayout ==
    /\ \E n \in 0..MaxLayoutImages, r \in 0..(Len(Shapes) - 1) :
         LET images == [i \in 1..n |-> SingleMsg(i + r, "photo")]
         IN  /\ sessions = [u \in Users |->
                    [NewSession(u) EXCEPT
                        !.image_refs = [i \in 1..n |-> ItemRef(images[i], i)],
                        !.active = FALSE,
                        !.sequence = n,
                        !.downloaded_images = <<images>>,
                        !.waiting_for_name = TRUE]]
             /\ sent = n
             /\ \E present \in SUBSET {images[i] : i \in 1..n} :
                    files = [u \in Users |-> present]
    /\ dirs = Users
    /\ groups = <<>>
    /\ closes = <<>>
    /\ texts = <<>>
    /\ documents = <<>>
    /\ ended = [u \in Users |-> "no"]
    /\ task = NoTask

\* the file name arrives and the document is built and sent
NextLayout ==
    \/ Text
    \/ TextSend

SpecLayout == InitLayout /\ [][NextLayout]_vars

Range(s) == {s[i] : i \in 1..Len(s)}

Refs(u) == sessions[u].image_refs

C2_NoSharedSequence ==
    \A u \in DOMAIN sessions :
        \A i, j \in 1..Len(Refs(u)) :
            i # j => Refs(u)[i].sequence # Refs(u)[j].sequence

\* C3: in the order handed to the downloads (the refs sorted by sequence
\* number) the items of one album are one contiguous block in album order
C3_GroupsContiguous ==
    \A u \in DOMAIN sessions : \A g \in Groups :
        LET r == sorted(Refs(u))
        IN  \A i, j \in 1..Len(r) :
                (i < j /\ r[i].message.gid = g /\ r[j].message.gid = g)
                => /\ \A m \in i..j : r[m].message.gid = g
                   /\ r[i].message.pos < r[j].message.pos

\* album g was ingested into the session of u, or is being ingested
GroupIngested(u, g) ==
    /\ u \in DOMAIN sessions
    /\ \/ g \in sessions[u].media_groups
       \/ \E i \in 1..Len(Refs(u)) : Refs(u)[i].message.gid = g

\* C4: a later message of an album already ingested into the session leaves
\* the session as it was: no ItemRef is added, the counter does not move
C4_GroupIdempotent ==
    [][\A u \in Users, g \in Groups :
          (GroupIngested(u, g) /\ handle_image_group(u, g)) => sessions' = sessions]_vars

\* the refs in ascending order of (distinct) sequence numbers
InputOrder(refs) ==
    [i \in 1..Len(refs) |->
        CHOOSE r \in Range(refs) :
            Cardinality({q \in Range(refs) : q.sequence < r.sequence}) = i - 1]

RECURSIVE IsSubsequence(_, _)
IsSubsequence(a, b) ==
    IF a = <<>> THEN TRUE
    ELSE IF b = <<>> THEN FALSE
         ELSE IF a[1] = b[1] THEN IsSubsequence(Tail(a), Tail(b))
              ELSE IsSubsequence(a, Tail(b))

\* C5: the list of retrieved images that close leaves in the session is a
\* subsequence of the session's items in ascending sequence order, whatever
\* the order in which the tasks ended
C5_OutputIsSubsequence ==
    \A u \in DOMAIN sessions :
        sessions[u].downloaded_images # <<>> =>
            LET input == InputOrder(Refs(u))
            IN  IsSubsequence(sessions[u].downloaded_images[1],
                              [i \in 1..Len(input) |-> input[i].message])

\* C5 witness: close left at least two images and dropped one between them
C5_Witness ==
    \E u \in DOMAIN sessions :
        /\ sessions[u].downloaded_images # <<>>
        /\ LET out == sessions[u].downloaded_images[1]
           IN  \E j \in 1..(Len(out) - 1) : out[j + 1].pos > out[j].pos + 1

\* C6: when gather has returned, the retrieved list holds exactly the items
\* whose fetch did not exhaust its attempts, and there is one failure report
\* per exhausted item
C6_OutputIsAllButExhausted ==
    \A k \in 1..Len(closes) :
        closes[k].pc = "final" =>
            LET f == closes[k]
                F == {i \in 1..Len(f.results) : f.results[i] = "FetchExhausted"}
            IN  /\ {p.idx + 1 : p \in Range(f.downloaded_images)}
                      = (1..Len(f.results)) \ F
                /\ f.failed = Cardinality(F)

\* C7: at most MAX_CONCURRENT_DOWNLOADS tasks of a close are started and not
\* yet settled
C7_AtMostMaxConcurrent ==
    \A k \in 1..Len(closes) :
        Cardinality({i \in 1..Len(closes[k].results) : closes[k].results[i] = "running"})
            <= MAX_CONCURRENT_DOWNLOADS

\* C8: when every task of a close failed the session never waits for a name,
\* no document is built from an empty list, and once the close has returned
\* the session entry and its directory are gone
C8_AllFailedIsTerminal ==
    /\ \A u \in DOMAIN sessions :
          sessions[u].waiting_for_name => sessions[u].downloaded_images # << <<>> >>
    /\ \A d \in 1..Len(documents) : documents[d].images # <<>>
    /\ \A u \in Users :
          ended[u] = "AllRetrievalsFailed" => u \notin DOMAIN sessions /\ u \notin dirs

\* C9: once /stop on a session without items has returned, the session entry
\* and its directory are gone
C9_EmptyCloseDestroysSession ==
    \A u \in Users :
        ended[u] = "EmptySession" => u \notin DOMAIN sessions /\ u \notin dirs

\* C10: after cancel on an existing session, and after the file-name handler
\* has sent the document or failed, the session entry and its directory are gone
C10_CancelCompleteDestroySession ==
    \A u \in Users :
        ended[u] \in {"Cancelled", "Done", "Failed"}
            => u \notin DOMAIN sessions /\ u \notin dirs

C12_RefsFrozenAfterClose ==
    [][/\ \A u \in DOMAIN sessions :
             (/\ ~sessions[u].active /\ ~sessions'[u].active
              /\ sessions[u].image_refs # <<>>)
             => sessions'[u].image_refs = sessions[u].image_refs
       /\ \A k \in 1..Len(closes') :
             closes'[k].pc = "gather" => Len(closes'[k].results) = closes'[k].count]_vars

\* C14: once a session has delivered its document or was cancelled, every
\* image, album, /stop or file-name message handled for that user before the
\* next /begin changes nothing: the session table stays as it was and no
\* handler is left suspended or at work on a document
C14_DoneCancelledAbsorbing ==
    [][\A u \in Users :
          (/\ ended[u] \in {"Done", "Cancelled"}
           /\ ImageSingle \/ ImageGroup \/ Stop \/ Text)
          => UNCHANGED <<sessions, groups, closes, texts, documents>>]_vars

\* C16: results of downloads that were in flight when the session was
\* replaced or cancelled are never stored into a later session, so no session
\* is at once collecting (active) and waiting for the file name
C16_NeverCollectingAndAwaitingName ==
    \A u \in DOMAIN sessions :
        ~(sessions[u].active /\ sessions[u].waiting_for_name)

\* the pages of all documents sent
AllPages == UNION {Range(documents[d].pages) : d \in 1..Len(documents)}

\* C15: a document of n >= 1 images has ceil(n / IMAGES_PER_PAGE) pages; page
\* p holds the next IMAGES_PER_PAGE images of the list, the last page what is
\* left; showPage is called before every page but the first
C15_PagesAreBatchesOfThree ==
    \A d \in 1..Len(documents) :
        LET doc == documents[d]
            n == Len(doc.images)
        IN  n >= 1 =>
              /\ doc.page_count = (n + IMAGES_PER_PAGE - 1) \div IMAGES_PER_PAGE
              /\ Len(doc.pages) = doc.page_count
              /\ \A p \in 1..Len(doc.pages) :
                    LET first == IMAGES_PER_PAGE * (p - 1)
                        size == IF p < Len(doc.pages) THEN IMAGES_PER_PAGE
                                ELSE n - first
                    IN  /\ size \in 1..IMAGES_PER_PAGE
                        /\ doc.pages[p].batch =
                               [j \in 1..size |-> doc.images[first + j]]
                        /\ doc.pages[p].showPage = (p > 1)

\* C15 witness: a document of 7 images was built: 3 pages, the last of 1 image
C15_Witness ==
    \E d \in 1..Len(documents) :
        /\ Len(documents[d].images) = 7
        /\ Len(documents[d].pages) = 3
        /\ Len(documents[d].pages[3].batch) = 1

\* C19: every image of a batch whose file exists and can be opened is drawn,
\* with its own ratio height / width, whatever the state of the other files
\* of the batch
C19_OwnAspectRatio ==
    \A page \in AllPages :
        \A j \in 1..Len(page.batch) :
            (j \in page.found /\ Image(page.batch[j]).readable) =>
                \E k \in 1..Len(page.drawn) :
                    /\ page.drawn[k].idx = j
                    /\ page.drawn[k].aspect =
                           Q(Image(page.batch[j]).height, Image(page.batch[j]).width)

C13_BeginInstallsFreshSession ==
    [][\A u \in Users :
          start_session(u) =>
            /\ u \in DOMAIN sessions'
            /\ sessions'[u].active
            /\ ~sessions'[u].waiting_for_name
            /\ sessions'[u].image_refs = <<>>
            /\ sessions'[u].downloaded_images = <<>>
            /\ sessions'[u].media_groups = {}
            /\ sessions'[u].sequence = 0
            /\ u \in dirs'
            /\ files'[u] = {}]_vars

\* C13 witness: /begin has replaced a session whose /stop is still
\* downloading: the new session is empty while a file of the old one was
\* already fetched by a task that is still counted in the gather
C13_Witness ==
    \E u \in Users :
        /\ u \in DOMAIN sessions
        /\ sessions[u].active
        /\ sessions[u].image_refs = <<>>
        /\ sessions[u].sequence = 0
        /\ files[u] = {}
        /\ \E k \in 1..Len(closes) :
              /\ closes[k].user = u
              /\ closes[k].pc = "gather"
              /\ \E i \in 1..Len(closes[k].results) : closes[k].results[i] = "path"

C21_ProgressOncePerPage ==
    \A d \in 1..Len(documents) :
        LET doc == documents[d]
            n == Len(doc.images)
            calls == doc.progress
        IN  n >= 1 =>
              /\ Len(calls) = (n + IMAGES_PER_PAGE - 1) \div IMAGES_PER_PAGE
              /\ Len(calls) = Len(doc.pages)
              /\ \A c \in 1..Len(calls) :
                    /\ calls[c].total = n
                    /\ calls[c].processed >= 1
                    /\ calls[c].processed <= calls[c].total
              /\ \A c \in 1..(Len(calls) - 1) :
                    calls[c].processed < calls[c + 1].processed
              /\ calls[Len(calls)].processed = n

\* C21 witness: a document of three pages was built, the last page short, and
\* on its first page an image was skipped
C21_Witness ==
    \E d \in 1..Len(documents) :
        /\ Len(documents[d].pages) = 3
        /\ Len(documents[d].progress) = 3
        /\ Len(documents[d].images) % IMAGES_PER_PAGE # 0
        /\ Len(documents[d].pages[1].drawn) < Len(documents[d].pages[1].batch)

=============================================================================
